---- MODULE Spec2Model ----
(***************************************************************************)
(* The auth service of sync-auth-api: POST /register and POST /login over  *)
(* the auth_users table, with bcrypt password digests and HS256 tokens.    *)
(*                                                                         *)
(* Python values are modelled as follows.  None is the empty sequence and  *)
(* a present value x is <<x>>.  TOKEN_EXPIRE_MINS, which the code parses,  *)
(* is a sequence of one-character strings.  A password, and the bytes it   *)
(* encodes to, is a sequence of runs <<c, n>>: the character (or byte) c   *)
(* repeated n >= 1 times, no two adjacent runs of the same c.              *)
(* An exception that leaves a handler uncaught is the 500 response that    *)
(* FastAPI produces for it.  A call that may raise yields Return(value) or *)
(* Raise(exception).  A call of the database may fail (fault) and          *)
(* uuid.uuid4() may return a value it returned before: Spec and SpecAnyEnv *)
(* leave both out, SpecStore has both.                                     *)
(***************************************************************************)
EXTENDS Integers, Sequences, FiniteSets, TLC

None == <<>>
Some(x) == <<x>>

\* What a call returns: a value, or the exception it raised.
Return(value) == [raised |-> None, value |-> Some(value)]
Raise(exception) == [raised |-> Some(exception), value |-> None]

----------------------------------------------------------------------------
(* Bounds and sampled inputs *)

\* The number of requests the service handles in one behaviour.
MaxRequests == 3

Emails == {"a@x.com", "b@x.com"}

\* The seconds time.time() may return when a token is issued.
Clock == {1000, 1001}

\* One reading of the clock, for the behaviours in which the handlers are
\* interleaved: no handler reads a token's exp.
Noon == {1000}

\* The salts bcrypt.gensalt() may return.
Salts == {"salt1", "salt2"}

\* Passwords: "pw1", and two of 72 characters (73 bytes in UTF-8: the code
\* point U+00E9 takes two) that differ only in their last character.
ShortPw == <<<<"p", 1>>, <<"w", 1>>, <<"1", 1>>>>
LongPwA == <<<<"x", 70>>, <<"U+00E9", 1>>, <<"a", 1>>>>
LongPwB == <<<<"x", 70>>, <<"U+00E9", 1>>, <<"b", 1>>>>

\* The passwords sent to /register and to /login.
RegisterPasswords == {ShortPw, LongPwA}
LoginPasswords == {ShortPw, LongPwA, LongPwB}

\* The passwords the password utilities are called with: those above and
\* "pw2".
OtherPw == <<<<"p", 1>>, <<"w", 1>>, <<"2", 1>>>>
Passwords == LoginPasswords \cup {OtherPw}

\* The values str(uuid.uuid4()) may return, where two calls may return the
\* same one.
Subs == {1, 2}

\* The store call of a handler's step that fails, the connection to the
\* database being lost: none of them, the query of get_user_by_email, or the
\* commit or the refresh of create_user.  (db.add only marks the object
\* pending and calls nothing.)
NoFault == "none"
QueryFaults == {NoFault, "query"}
CreateFaults == {NoFault, "commit", "refresh"}

\* An environment: what os.environ.get returns for each setting.
Environment(url, secret, mins) ==
    [AUTH_DATABASE_URL |-> url, JWT_SECRET |-> secret, TOKEN_EXPIRE_MINS |-> mins]

Url == Some("sqlite:///auth.db")
Secret == Some("s3cret")

\* The environment with every setting present and well-formed.
DeployedEnvironment == Environment(Url, Secret, Some(<<" ", "3", "0">>))

\* The environments a start of the service may meet: the one above, another
\* well-formed one, and those that leave one setting unset, empty,
\* non-numeric or not positive.
Environments ==
    {DeployedEnvironment,
     Environment(Url, Secret, Some(<<"1">>)),
     Environment(None, Secret, Some(<<"1">>)),
     Environment(Url, None, Some(<<"1">>)),
     Environment(Url, Some(""), Some(<<"1">>)),
     Environment(Url, Secret, None),
     Environment(Url, Secret, Some(<<"x">>)),
     Environment(Url, Secret, Some(<<"0">>)),
     Environment(Url, Secret, Some(<<"-", "1">>))}

----------------------------------------------------------------------------
(* State *)

VARIABLES
    AUTH_DATABASE_URL,  \* settings.AUTH_DATABASE_URL
    JWT_SECRET,         \* settings.JWT_SECRET
    TOKEN_EXPIRE_MINS,  \* settings.TOKEN_EXPIRE_MINS
    phase,              \* "boot", "serving", or "failed" (import of main raised)
    auth_users,         \* the rows of table auth_users
    received,           \* the number of requests received so far
    reqs,               \* the requests received so far, each with its handler's locals
    plain_password,     \* test_hash_and_verify_password: the password hashed
    hashed,             \* test_hash_and_verify_password: the digest of it
    verified            \* the verify_password calls made on hashed, with their outcomes

\* The variables of the service, and those of the test of the utilities.
service_vars == <<AUTH_DATABASE_URL, JWT_SECRET, TOKEN_EXPIRE_MINS, phase,
                  auth_users, received, reqs>>
test_vars == <<plain_password, hashed, verified>>

vars == <<service_vars, test_vars>>

----------------------------------------------------------------------------
(* str.encode("utf-8") and bcrypt *)

\* s followed by t, the runs that meet merged when they are of one byte.
Concat(s, t) ==
    IF s = <<>> THEN t
    ELSE IF t = <<>> THEN s
    ELSE IF s[Len(s)][1] = t[1][1]
    THEN SubSeq(s, 1, Len(s) - 1) \o <<<<t[1][1], s[Len(s)][2] + t[1][2]>>>> \o Tail(t)
    ELSE s \o t

\* The UTF-8 bytes of n copies of character c: an ASCII character is one
\* byte, U+00E9 is the two bytes C3 A9.
RECURSIVE Utf8Run(_, _)
Utf8Run(c, n) ==
    IF c # "U+00E9" THEN <<<<c, n>>>>
    ELSE IF n = 0 THEN <<>>
    ELSE <<<<"0xC3", 1>>, <<"0xA9", 1>>>> \o Utf8Run(c, n - 1)

\* password.encode("utf-8")
RECURSIVE encode_utf8(_)
encode_utf8(s) ==
    IF s = <<>> THEN <<>>
    ELSE Concat(Utf8Run(Head(s)[1], Head(s)[2]), encode_utf8(Tail(s)))

\* The first k bytes of b, or all of b when it has fewer.
RECURSIVE FirstBytes(_, _)
FirstBytes(b, k) ==
    IF b = <<>> \/ k = 0 THEN <<>>
    ELSE IF Head(b)[2] <= k
    THEN <<Head(b)>> \o FirstBytes(Tail(b), k - Head(b)[2])
    ELSE <<<<Head(b)[1], k>>>>

\* bcrypt keys on at most this many bytes of the password.
BcryptMaxBytes == 72

\* bcrypt.hashpw(password, salt): the digest names its salt and hashes the
\* first 72 bytes of the password; bytes past the 72nd do not reach the hash
\* (the behaviour of bcrypt up to release 4; release 5 raises ValueError for
\* such a password).  The hash is taken to be collision-free on what it reads.
bcrypt_hashpw(password, salt) ==
    [salt |-> salt, hash |-> <<salt, FirstBytes(password, BcryptMaxBytes)>>]

\* Whether bcrypt finds a salt (version, cost and 22 characters) in a digest
\* that names this one.
IsSalt(salt) == salt \in Salts

\* bcrypt.checkpw(password, hashed_password): rehash under the digest's salt, compare.
\* A digest with no salt that parses makes the rehash raise ValueError
\* ("Invalid salt").
bcrypt_checkpw(password, hashed_password) ==
    IF ~IsSalt(hashed_password.salt) THEN Raise("ValueError")
    ELSE Return(bcrypt_hashpw(password, hashed_password.salt) = hashed_password)

\* hash_password(password), salt being what bcrypt.gensalt() returned.  The
\* digest's bytes are ASCII: decode("utf-8") leaves them as they are.
hash_password(password, salt) == bcrypt_hashpw(encode_utf8(password), salt)

\* verify_password(password, hashed_password): what checkpw returns, or the
\* exception it raised.  encode("utf-8") leaves the digest as it is.
verify_password(password, hashed_password) ==
    bcrypt_checkpw(encode_utf8(password), hashed_password)

\* Digests that are not what bcrypt.hashpw returns: one with no salt in it
\* (any string that does not begin as a bcrypt digest does), and one cut
\* off after its salt.
MalformedDigest == [salt |-> "", hash |-> <<>>]
TruncatedDigest == [salt |-> "salt1", hash |-> <<>>]

----------------------------------------------------------------------------
(* int(str) *)

DigitChars == <<"0", "1", "2", "3", "4", "5", "6", "7", "8", "9">>
IsDigit(c) == \E n \in 1..10 : DigitChars[n] = c
DigitVal(c) == (CHOOSE n \in 1..10 : DigitChars[n] = c) - 1
IsSpace(c) == c = " "

RECURSIVE LStrip(_)
LStrip(s) == IF s # <<>> /\ IsSpace(Head(s)) THEN LStrip(Tail(s)) ELSE s

RECURSIVE RStrip(_)
RStrip(s) ==
    IF s # <<>> /\ IsSpace(s[Len(s)]) THEN RStrip(SubSeq(s, 1, Len(s) - 1)) ELSE s

\* The digits of an int literal: digits, single underscores between them.
IsDigitString(s) ==
    /\ s # <<>>
    /\ IsDigit(s[1]) /\ IsDigit(s[Len(s)])
    /\ \A i \in 1..Len(s) : IsDigit(s[i]) \/ s[i] = "_"
    /\ \A i \in 1..(Len(s) - 1) : ~(s[i] = "_" /\ s[i + 1] = "_")

RECURSIVE DigitsValue(_, _)
DigitsValue(s, acc) ==
    IF s = <<>> THEN acc
    ELSE IF Head(s) = "_" THEN DigitsValue(Tail(s), acc)
    ELSE DigitsValue(Tail(s), 10 * acc + DigitVal(Head(s)))

\* int(s) for a str s: Some(n), or None where Python raises ValueError.
PyInt(s) ==
    LET t == RStrip(LStrip(s))
        signed == t # <<>> /\ Head(t) \in {"+", "-"}
        body == IF signed THEN Tail(t) ELSE t
    IN  IF ~IsDigitString(body) THEN None
        ELSE IF signed /\ Head(t) = "-" THEN Some(0 - DigitsValue(body, 0))
        ELSE Some(DigitsValue(body, 0))

----------------------------------------------------------------------------
(* utils/security.py: create_access_token *)

\* create_access_token adding the minutes to now as if they were seconds.
create_access_token_minutes(data, now) ==
    IF TOKEN_EXPIRE_MINS = None THEN Raise("TypeError")
    ELSE IF PyInt(TOKEN_EXPIRE_MINS[1]) = None THEN Raise("ValueError")
    ELSE IF JWT_SECRET = None THEN Raise("TypeError")
    ELSE Return([sub |-> data.sub, email |-> data.email,
                 exp |-> now + PyInt(TOKEN_EXPIRE_MINS[1])[1],
                 key |-> JWT_SECRET[1]])

\* create_access_token(data) with time.time() returning now.  int(None) is a
\* TypeError, int of a non-numeric str a ValueError, and jwt.encode with key
\* None a TypeError; any str key signs, the empty one included.  A token is
\* its payload and the key that signed it.
create_access_token(data, now) ==
    IF TOKEN_EXPIRE_MINS = None THEN Raise("TypeError")
    ELSE IF PyInt(TOKEN_EXPIRE_MINS[1]) = None THEN Raise("ValueError")
    ELSE LET seconds_until_expiry == PyInt(TOKEN_EXPIRE_MINS[1])[1] * 60
             exp_timestamp == now + seconds_until_expiry
         IN  IF JWT_SECRET = None THEN Raise("TypeError")
             ELSE Return([sub |-> data.sub, email |-> data.email,
                          exp |-> exp_timestamp, key |-> JWT_SECRET[1]])

----------------------------------------------------------------------------
(* Responses *)

\* The 200 response of both handlers.
TokenResponse(token) ==
    [status_code |-> 200, detail |-> "", access_token |-> Some(token),
     token_type |-> "bearer"]

HTTPException(status_code, detail) ==
    [status_code |-> status_code, detail |-> detail, access_token |-> None,
     token_type |-> ""]

\* What FastAPI answers when a handler raises anything but an HTTPException.
InternalServerError == HTTPException(500, "Internal Server Error")

----------------------------------------------------------------------------
(* db/db_methods.py over models/user.py *)

\* get_user_by_email without its filter: first() of the whole table.
get_user_by_email_unfiltered(email, fault) ==
    IF fault = "query" THEN Raise("OperationalError")
    ELSE IF auth_users = {} THEN Return(None)
    ELSE Return(Some(CHOOSE u \in auth_users : TRUE))

\* query(AuthUser).filter(AuthUser.email == email).first(): the row, None,
\* or the error of a query that could not be run.
get_user_by_email(email, fault) ==
    LET rows == {u \in auth_users : u.email = email}
    IN  IF fault = "query" THEN Raise("OperationalError")
        ELSE IF rows = {} THEN Return(None)
        ELSE Return(Some(CHOOSE u \in rows : TRUE))

\* auth_users with no unique constraint.
UniqueViolation_unconstrained(email, sub) == FALSE

\* auth_users with its unique constraint on email alone.
UniqueViolation_email_only(email, sub) ==
    \E u \in auth_users : u.email = email

\* The unique constraints of auth_users, on email and on sub: whether a row
\* with this email and sub would violate one.
UniqueViolation(email, sub) ==
    \E u \in auth_users : u.email = email \/ u.sub = sub

\* The AuthUser that create_user adds; user_id is assigned by the store.
AuthUser(email, hashed_password, sub) ==
    [user_id |-> Cardinality(auth_users) + 1, email |-> email,
     hashed_password |-> hashed_password, sub |-> sub]

\* create_user(db, email, hashed_password, sub): the refreshed auth_user, or
\* the exception of commit or of refresh, re-raised after the rollback.
create_user(email, hashed_password, sub, fault) ==
    IF fault = "commit" THEN Raise("OperationalError")
    ELSE IF UniqueViolation(email, sub) THEN Raise("IntegrityError")
    ELSE IF fault = "refresh" THEN Raise("OperationalError")
    ELSE Return(AuthUser(email, hashed_password, sub))

\* A call of the store by a handler, and the exception it raised if any.
StoreCall(call, raised) == [call |-> call, raised |-> raised]

\* The store calls create_user makes: refresh only after a commit that
\* went through.
create_user_calls(email, sub, fault) ==
    IF fault = "commit"
    THEN <<StoreCall("commit", Some("OperationalError"))>>
    ELSE IF UniqueViolation(email, sub)
    THEN <<StoreCall("commit", Some("IntegrityError"))>>
    ELSE IF fault = "refresh"
    THEN <<StoreCall("commit", None), StoreCall("refresh", Some("OperationalError"))>>
    ELSE <<StoreCall("commit", None), StoreCall("refresh", None)>>

\* The table after create_user returned or raised.  A commit that went
\* through has ended the transaction: the rollback that follows a failed
\* refresh finds nothing to undo.
Committed(email, hashed_password, sub, fault) ==
    IF fault = "commit" \/ UniqueViolation(email, sub) THEN auth_users
    ELSE auth_users \cup {AuthUser(email, hashed_password, sub)}

\* A row the table may hold when the service starts, written earlier or by
\* another program, with the given digest.
StoredRow(digest) ==
    [user_id |-> 1, email |-> "a@x.com", hashed_password |-> digest, sub |-> 1]

\* The tables the service may find when it starts: the database outlives
\* the process.
StoredTables ==
    {{},
     {StoredRow(hash_password(ShortPw, "salt1"))},
     {StoredRow(MalformedDigest)},
     {StoredRow(TruncatedDigest)}}

----------------------------------------------------------------------------
(* db/database.py: get_db *)

\* get_db closing the session only after a handler that returned.
get_db_no_finally(r) ==
    [r EXCEPT !.session =
        IF r.pc = "done" /\ r.raised = None THEN "closed" ELSE "open"]

\* The session that get_db yields to the handler of request r: open while
\* the handler runs, closed by the finally clause once it has returned or
\* raised.
get_db(r) ==
    [r EXCEPT !.session = IF r.pc = "done" THEN "closed" ELSE "open"]

----------------------------------------------------------------------------
(* routes/auth.py *)

NoSub == 0

\* str(uuid.uuid4()) returning a value no earlier call returned.
uuid4 == Cardinality({r \in reqs : r.new_sub # NoSub}) + 1

\* A request as received, the handler's locals not yet assigned.  email_taken,
\* issued_at and store_calls are history: whether auth_users held a row of
\* this email when the request was received, what time.time() returned to
\* the create_access_token call that made the response's token, and the
\* store calls the handler has made.
Request(op, email, password) ==
    [op |-> op, email |-> email, password |-> password, pc |-> "done",
     email_taken |-> \E u \in auth_users : u.email = email,
     auth_user |-> None, new_sub |-> NoSub, hashed_pw |-> None,
     issued_at |-> None, raised |-> None, resp |-> None,
     session |-> "open", store_calls |-> <<>>]

\* The request r ended by raise HTTPException(status_code, detail).
Rejected(r, status_code, detail) ==
    [r EXCEPT !.pc = "done", !.raised = Some("HTTPException"),
              !.resp = Some(HTTPException(status_code, detail))]

\* The request r ended by an exception no handler catches.
Failed(r, exception) ==
    [r EXCEPT !.pc = "done", !.raised = Some(exception),
              !.resp = Some(InternalServerError)]

\* The request r ended by create_access_token: the token returned, or the
\* exception it raised.
Issued(r, issued, now) ==
    IF issued.raised # None THEN Failed(r, issued.raised[1])
    ELSE [r EXCEPT !.pc = "done", !.issued_at = Some(now),
                   !.resp = Some(TokenResponse(issued.value[1]))]

\* register, lines 34-37: the lookup, then the new sub (what uuid4 returned)
\* and the digest.
register_lookup(email, password, salt, sub, fault) ==
    LET found == get_user_by_email(email, fault)
        r == [Request("register", email, password) EXCEPT
                  !.store_calls = <<StoreCall("query", found.raised)>>]
    IN  IF found.raised # None THEN Failed(r, found.raised[1])
        ELSE IF found.value[1] # None
        THEN Rejected([r EXCEPT !.auth_user = found.value[1]],
                      400, "That email is already registered")
        ELSE [r EXCEPT !.pc = "create_user", !.new_sub = sub,
                       !.hashed_pw = Some(hash_password(password, salt))]

\* register issuing its token whether or not create_user returned.
register_create_token_regardless(r, now, fault) ==
    LET q == [r EXCEPT !.store_calls =
                  @ \o create_user_calls(r.email, r.new_sub, fault)]
    IN  Issued(q, create_access_token([sub |-> r.new_sub, email |-> r.email], now),
               now)

\* register, lines 38-40, for the request r: create_user, then the token.
register_create(r, now, fault) ==
    LET created == create_user(r.email, r.hashed_pw[1], r.new_sub, fault)
        q == [r EXCEPT !.store_calls =
                  @ \o create_user_calls(r.email, r.new_sub, fault)]
    IN  IF created.raised # None THEN Failed(q, created.raised[1])
        ELSE LET auth_user == created.value[1]
             IN  Issued([q EXCEPT !.auth_user = Some(auth_user)],
                        create_access_token(
                            [sub |-> auth_user.sub, email |-> auth_user.email], now),
                        now)

\* login with a failure of its own for an email that is not on file.
login_unknown_email_404(email, password, now, fault) ==
    LET found == get_user_by_email(email, fault)
        r == [Request("login", email, password) EXCEPT
                  !.store_calls = <<StoreCall("query", found.raised)>>]
    IN  IF found.raised # None THEN Failed(r, found.raised[1])
        ELSE LET auth_user == found.value[1]
                 q == [r EXCEPT !.auth_user = auth_user]
             IN  IF auth_user = None THEN Rejected(q, 404, "User not found")
                 ELSE LET checked ==
                              verify_password(password, auth_user[1].hashed_password)
                      IN  IF checked.raised # None
                          THEN Failed(q, checked.raised[1])
                          ELSE IF ~checked.value[1]
                          THEN Rejected(q, 400, "Invalid username or password")
                          ELSE Issued(q,
                                      create_access_token(
                                          [sub |-> auth_user[1].sub,
                                           email |-> auth_user[1].email], now),
                                      now)

\* login minting a sub of its own, as register does, for the token.
login_fresh_sub(email, password, now, fault) ==
    LET found == get_user_by_email(email, fault)
        r == [Request("login", email, password) EXCEPT
                  !.store_calls = <<StoreCall("query", found.raised)>>]
    IN  IF found.raised # None THEN Failed(r, found.raised[1])
        ELSE LET auth_user == found.value[1]
                 q == [r EXCEPT !.auth_user = auth_user]
             IN  IF auth_user = None
                 THEN Rejected(q, 400, "Invalid username or password")
                 ELSE LET checked ==
                              verify_password(password, auth_user[1].hashed_password)
                      IN  IF checked.raised # None
                          THEN Failed(q, checked.raised[1])
                          ELSE IF ~checked.value[1]
                          THEN Rejected(q, 400, "Invalid username or password")
                          ELSE Issued(q,
                                      create_access_token(
                                          [sub |-> uuid4,
                                           email |-> auth_user[1].email], now),
                                      now)

\* login answering a lookup that could not be run as it answers an email
\* that is not on file.
login_masks_store_failure(email, password, now, fault) ==
    LET found == get_user_by_email(email, fault)
        r == [Request("login", email, password) EXCEPT
                  !.store_calls = <<StoreCall("query", found.raised)>>]
    IN  IF found.raised # None
        THEN Rejected(r, 400, "Invalid username or password")
        ELSE LET auth_user == found.value[1]
                 q == [r EXCEPT !.auth_user = auth_user]
             IN  IF auth_user = None
                 THEN Rejected(q, 400, "Invalid username or password")
                 ELSE LET checked ==
                              verify_password(password, auth_user[1].hashed_password)
                      IN  IF checked.raised # None
                          THEN Failed(q, checked.raised[1])
                          ELSE IF ~checked.value[1]
                          THEN Rejected(q, 400, "Invalid username or password")
                          ELSE Issued(q,
                                      create_access_token(
                                          [sub |-> auth_user[1].sub,
                                           email |-> auth_user[1].email], now),
                                      now)

\* login, lines 65-69: the lookup, the `not auth_user or not verify_password`
\* of line 66 (verify_password is called only for a row that was found, and
\* what it raises leaves the handler), then the token.
login(email, password, now, fault) ==
    LET found == get_user_by_email(email, fault)
        r == [Request("login", email, password) EXCEPT
                  !.store_calls = <<StoreCall("query", found.raised)>>]
    IN  IF found.raised # None THEN Failed(r, found.raised[1])
        ELSE LET auth_user == found.value[1]
                 q == [r EXCEPT !.auth_user = auth_user]
             IN  IF auth_user = None
                 THEN Rejected(q, 400, "Invalid username or password")
                 ELSE LET checked ==
                              verify_password(password, auth_user[1].hashed_password)
                      IN  IF checked.raised # None
                          THEN Failed(q, checked.raised[1])
                          ELSE IF ~checked.value[1]
                          THEN Rejected(q, 400, "Invalid username or password")
                          ELSE Issued(q,
                                      create_access_token(
                                          [sub |-> auth_user[1].sub,
                                           email |-> auth_user[1].email], now),
                                      now)

----------------------------------------------------------------------------
(* Behaviour *)

\* The service when the interpreter starts to import main, in environment
\* env and with the database holding table.
Boot(env, table) ==
    /\ AUTH_DATABASE_URL = env.AUTH_DATABASE_URL
    /\ JWT_SECRET = env.JWT_SECRET
    /\ TOKEN_EXPIRE_MINS = env.TOKEN_EXPIRE_MINS
    /\ phase = "boot"
    /\ auth_users = table
    /\ received = 0
    /\ reqs = {}

\* The test of the utilities is not run.
NoTest ==
    /\ plain_password = None
    /\ hashed = None
    /\ verified = {}

Init == Boot(DeployedEnvironment, {}) /\ NoTest

\* Import of main: settings reads the environment, database.py builds the
\* engine (create_engine(None) raises), main.py builds the app and the table.
Startup ==
    /\ phase = "boot"
    /\ phase' = IF AUTH_DATABASE_URL = None THEN "failed" ELSE "serving"
    /\ UNCHANGED <<AUTH_DATABASE_URL, JWT_SECRET, TOKEN_EXPIRE_MINS, auth_users,
                   received, reqs>>
    /\ UNCHANGED test_vars

Accept ==
    /\ phase = "serving"
    /\ received < MaxRequests
    /\ received' = received + 1

\* POST /register up to the call of create_user.
RegisterLookup(email, password, salt, sub, fault) ==
    /\ Accept
    /\ reqs' = reqs \cup {get_db(register_lookup(email, password, salt, sub, fault))}
    /\ UNCHANGED <<AUTH_DATABASE_URL, JWT_SECRET, TOKEN_EXPIRE_MINS, phase, auth_users>>
    /\ UNCHANGED test_vars

\* POST /register from create_user to the response.
RegisterCreate(r, now, fault) ==
    /\ r.pc = "create_user"
    /\ auth_users' = Committed(r.email, r.hashed_pw[1], r.new_sub, fault)
    /\ reqs' = (reqs \ {r}) \cup {get_db(register_create(r, now, fault))}
    /\ UNCHANGED <<AUTH_DATABASE_URL, JWT_SECRET, TOKEN_EXPIRE_MINS, phase, received>>
    /\ UNCHANGED test_vars

\* POST /login.
Login(email, password, now, fault) ==
    /\ Accept
    /\ reqs' = reqs \cup {get_db(login(email, password, now, fault))}
    /\ UNCHANGED <<AUTH_DATABASE_URL, JWT_SECRET, TOKEN_EXPIRE_MINS, phase, auth_users>>
    /\ UNCHANGED test_vars

\* Clients of a store that answers every call, uuid4 never repeating itself.
Next ==
    \/ Startup
    \/ \E email \in Emails, password \in RegisterPasswords, salt \in Salts :
           RegisterLookup(email, password, salt, uuid4, NoFault)
    \/ \E r \in reqs, now \in Noon : RegisterCreate(r, now, NoFault)
    \/ \E email \in Emails, password \in LoginPasswords, now \in Noon :
           Login(email, password, now, NoFault)

\* The service in its deployed environment, on an empty table.
Spec == Init /\ [][Next]_vars

InitAnyEnv == (\E env \in Environments : Boot(env, {})) /\ NoTest

\* Clients with one password, at any reading of the clock.
NextAnyEnv ==
    \/ Startup
    \/ \E email \in Emails : RegisterLookup(email, ShortPw, "salt1", uuid4, NoFault)
    \/ \E r \in reqs, now \in Clock : RegisterCreate(r, now, NoFault)
    \/ \E email \in Emails, now \in Clock : Login(email, ShortPw, now, NoFault)

\* The service started in any environment.
SpecAnyEnv == InitAnyEnv /\ [][NextAnyEnv]_vars

InitStore == (\E table \in StoredTables : Boot(DeployedEnvironment, table)) /\ NoTest

\* The handler of a registration that called create_user goes on to its end.
Handle == \E r \in reqs, now \in Noon, fault \in CreateFaults : RegisterCreate(r, now, fault)

\* Clients of a store whose calls may fail, uuid4 returning any of Subs.
NextStore ==
    \/ Startup
    \/ \E email \in Emails, sub \in Subs, fault \in QueryFaults :
           RegisterLookup(email, ShortPw, "salt1", sub, fault)
    \/ Handle
    \/ \E email \in Emails, password \in {ShortPw, OtherPw}, now \in Noon,
          fault \in QueryFaults :
           Login(email, password, now, fault)

\* The service in its deployed environment, on any table and a store that
\* may fail.
SpecStore == InitStore /\ [][NextStore]_vars

\* The clients of NextStore that use one email.
NextOneEmail ==
    \/ Startup
    \/ \E sub \in Subs, fault \in QueryFaults :
           RegisterLookup("a@x.com", ShortPw, "salt1", sub, fault)
    \/ Handle
    \/ \E now \in Noon, fault \in QueryFaults :
           Login("a@x.com", ShortPw, now, fault)

\* The service under those clients, every handler that was started running
\* to its end: the server does not abandon a request it has accepted.
FairSpecStore == InitStore /\ [][NextOneEmail]_vars /\ WF_vars(Handle)

\* test_hash_and_verify_password, for any password.
InitHash ==
    /\ Boot(DeployedEnvironment, {})
    /\ \E password \in Passwords : plain_password = Some(password)
    /\ hashed = None
    /\ verified = {}

\* hashed = hash_password(plain_password), bcrypt.gensalt() returning salt.
HashPassword(salt) ==
    /\ plain_password # None
    /\ hashed = None
    /\ hashed' = Some(hash_password(plain_password[1], salt))
    /\ UNCHANGED <<service_vars, plain_password, verified>>

\* verify_password(password, hashed)
VerifyPassword(password) ==
    /\ hashed # None
    /\ verified' = verified \cup
           {[password |-> password, outcome |-> verify_password(password, hashed[1])]}
    /\ UNCHANGED <<service_vars, plain_password, hashed>>

NextHash ==
    \/ \E salt \in Salts : HashPassword(salt)
    \/ \E password \in Passwords : VerifyPassword(password)

\* The password utilities, called as their unit test calls them.
SpecHash == InitHash /\ [][NextHash]_vars

----------------------------------------------------------------------------
(* Vocabulary of the properties *)

Registers == {r \in reqs : r.op = "register"}
Logins == {r \in reqs : r.op = "login"}

Done(r) == r.pc = "done" /\ r.resp # None

\* The response of r is 200 with a token.
Succeeded(r) ==
    /\ Done(r)
    /\ r.resp[1].status_code = 200
    /\ r.resp[1].access_token # None
    /\ r.resp[1].token_type = "bearer"

\* The response of r is the given failure, and carries no token.
FailedWith(r, status_code, detail) ==
    /\ Done(r)
    /\ r.resp[1].status_code = status_code
    /\ r.resp[1].detail = detail
    /\ r.resp[1].access_token = None

TokenOf(r) == r.resp[1].access_token[1]

Accounts(email) == {u \in auth_users : u.email = email}
Account(email) == CHOOSE u \in auth_users : u.email = email

\* The registration that created account u.
Registrant(u) == CHOOSE r \in Registers : r.new_sub = u.sub

\* The configuration the service is specified to run with: a non-empty
\* signing secret and a TTL that is a positive integer.
ConfigurationValid ==
    /\ JWT_SECRET # None
    /\ JWT_SECRET # Some("")
    /\ TOKEN_EXPIRE_MINS # None
    /\ PyInt(TOKEN_EXPIRE_MINS[1]) # None
    /\ PyInt(TOKEN_EXPIRE_MINS[1])[1] > 0

\* No other registration of r's email was received before the account
\* existed: the registrations of that email came one after the other.
InSequence(r) ==
    \A q \in Registers \ {r} : q.email = r.email => q.email_taken

----------------------------------------------------------------------------
(* Properties *)

\* C1: with the registrations of an email made in sequence and the service
\* validly configured, the first is answered 200 with a token; every
\* registration received when the email is on file is answered 400 "That
\* email is already registered"; and the table then holds exactly one
\* account of that email.
C1_DuplicateRegistration ==
    \A r \in Registers :
        /\ r.email_taken =>
              /\ FailedWith(r, 400, "That email is already registered")
              /\ Cardinality(Accounts(r.email)) = 1
        /\ (Done(r) /\ ~r.email_taken /\ InSequence(r) /\ ConfigurationValid) =>
              /\ Succeeded(r)
              /\ Cardinality(Accounts(r.email)) = 1

\* A registration answered 200 and a later one of the same email answered 400.
C1_Witness ==
    \E r, q \in Registers :
        /\ r.email = q.email
        /\ ~r.email_taken /\ InSequence(r) /\ Succeeded(r)
        /\ q.email_taken /\ FailedWith(q, 400, "That email is already registered")

\* C2: whatever the interleaving of the registrations of one email, the
\* table holds at most one account of that email and at most one of the
\* registrations is answered 200.
C2_AtMostOneAccountPerEmail ==
    \A email \in Emails :
        /\ Cardinality(Accounts(email)) <= 1
        /\ Cardinality({r \in Registers : r.email = email /\ Succeeded(r)}) <= 1

\* Two registrations of one email that both passed the lookup, both ended,
\* one of them answered 200.
C2_Witness ==
    \E r, q \in Registers :
        /\ r # q /\ r.email = q.email
        /\ ~r.email_taken /\ ~q.email_taken
        /\ Succeeded(r) /\ Done(q)

\* C3: a registration that passed the lookup and whose create_user raised
\* on the uniqueness of the email is answered as the lookup would have
\* answered it: 400 "That email is already registered".
C3_RaceLoserIsDuplicateEmail ==
    \A r \in Registers :
        (Done(r) /\ ~r.email_taken /\ r.raised = Some("IntegrityError")) =>
            FailedWith(r, 400, "That email is already registered")

\* The login r took the wrong-password branch: its email was on file and
\* the digest on file rejects its password.
WrongPassword(r) ==
    /\ r.email_taken
    /\ verify_password(r.password, Account(r.email).hashed_password) = Return(FALSE)

CredentialsMatch(r) ==
    /\ r.email_taken
    /\ r.password = Registrant(Account(r.email)).password

\* C5: with the service validly configured, a login is answered 200 with a
\* token if and only if its email is on file and its password is the one
\* the account was registered with; every other login is answered 400
\* "Invalid username or password".
C5_LoginSucceedsIffCredentialsMatch ==
    ConfigurationValid =>
        \A r \in Logins :
            /\ CredentialsMatch(r) => Succeeded(r)
            /\ ~CredentialsMatch(r) =>
                   FailedWith(r, 400, "Invalid username or password")

\* C6: the token of every successful login carries the sub stored for the
\* account of its email, which is the sub carried by the token that the
\* registration of that account returned.
C6_LoginTokenCarriesAccountSub ==
    \A r \in Logins :
        Succeeded(r) =>
            /\ Accounts(r.email) # {}
            /\ TokenOf(r).sub = Account(r.email).sub
            /\ \A q \in Registers :
                   (q.email = r.email /\ Succeeded(q)) => TokenOf(q).sub = TokenOf(r).sub

\* An account registered and logged into, with another account registered.
C6_Witness ==
    \E r \in Logins, q, o \in Registers :
        /\ Succeeded(r) /\ Succeeded(q) /\ Succeeded(o)
        /\ q.email = r.email /\ o.email # r.email

\* C7: no token is returned when the signing secret is absent or empty or
\* the TTL is not a positive integer.
C7_NoTokenUnlessConfigured ==
    ~ConfigurationValid =>
        \A r \in reqs : Done(r) => r.resp[1].access_token = None

\* C8: the exp of every token returned is greater than the time at which
\* it was issued.
C8_ExpAfterIssuance ==
    \A r \in reqs : Succeeded(r) => TokenOf(r).exp > r.issued_at[1]

\* The configured TTL in minutes, read off the environment by hand.
ConfiguredMinutes ==
    CASE TOKEN_EXPIRE_MINS = Some(<<" ", "3", "0">>) -> 30
      [] TOKEN_EXPIRE_MINS = Some(<<"1">>) -> 1
      [] TOKEN_EXPIRE_MINS = Some(<<"0">>) -> 0
      [] TOKEN_EXPIRE_MINS = Some(<<"-", "1">>) -> 0 - 1

\* C9: the exp of every token returned is the issuance time plus 60 times
\* the configured minutes, and its sub and email are those of the account
\* it was issued for.
C9_ExpIsIssuancePlusTtl ==
    \A r \in reqs :
        Succeeded(r) =>
            /\ TokenOf(r).exp = r.issued_at[1] + ConfiguredMinutes * 60
            /\ Accounts(r.email) # {}
            /\ TokenOf(r).sub = Account(r.email).sub
            /\ TokenOf(r).email = r.email

\* Tokens returned by a registration and by a login under a TTL of " 30".
C9_Witness ==
    /\ TOKEN_EXPIRE_MINS = Some(<<" ", "3", "0">>)
    /\ \E r \in Registers, q \in Logins :
           /\ Succeeded(r) /\ TokenOf(r).exp = r.issued_at[1] + 1800
           /\ Succeeded(q) /\ TokenOf(q).exp = q.issued_at[1] + 1800

\* C10: with the TTL missing or non-numeric, or the secret missing, the
\* service does not come to serve: it receives no request, and no request
\* ends in the exception of the missing setting.
C10_MisconfigurationStopsStartup ==
    (\/ TOKEN_EXPIRE_MINS = None
     \/ (TOKEN_EXPIRE_MINS # None /\ PyInt(TOKEN_EXPIRE_MINS[1]) = None)
     \/ JWT_SECRET = None) =>
        /\ phase # "serving"
        /\ received = 0
        /\ \A r \in reqs : r.raised \notin {Some("TypeError"), Some("ValueError")}

\* The login r found an account whose digest is not one bcrypt.hashpw
\* returns.
MalformedOnFile(r) ==
    /\ r.auth_user # None
    /\ r.auth_user[1].hashed_password \in {MalformedDigest, TruncatedDigest}

\* C11: for an account whose stored digest is malformed, verify_password
\* returns False without raising, and a login to it is answered 400
\* "Invalid username or password", never 200.
C11_MalformedDigestFailsClosed ==
    \A r \in Logins :
        MalformedOnFile(r) =>
            /\ verify_password(r.password, r.auth_user[1].hashed_password)
                   = Return(FALSE)
            /\ r.raised # Some("ValueError")
            /\ FailedWith(r, 400, "Invalid username or password")

\* C12: whichever salt hash_password picked for the password p, every
\* verify_password(q, hash_password(p)) returns True if q = p and False if
\* q # p.
C12_VerifyIffSamePassword ==
    \A v \in verified :
        v.outcome = Return(v.password = plain_password[1])

\* The rows of table that hold what the registration r passed to
\* create_user.
RowsOf(r, table) ==
    {u \in table : /\ u.email = r.email
                   /\ u.hashed_password = r.hashed_pw[1]
                   /\ u.sub = r.new_sub}

\* C13: in every step in which a registration r comes back from create_user
\* as q: if create_user returned, the step adds to auth_users one row, which
\* holds r's email, digest and sub; if create_user raised, the step adds
\* nothing.
C13_CreateUserAtomic ==
    [][\A r \in reqs \ reqs', q \in reqs' \ reqs :
           r.pc = "create_user" =>
               /\ q.auth_user # None =>
                      /\ Cardinality(auth_users' \ auth_users) = 1
                      /\ auth_users' \ auth_users = RowsOf(r, auth_users')
               /\ q.auth_user = None => auth_users' = auth_users]_vars

\* C14: no two rows of auth_users hold the same sub, whatever uuid4
\* returns and however the registrations interleave; and a row's sub is
\* the one its registration passed to create_user, the same in every later
\* state.
C14_SubUniqueAndAssignedOnce ==
    /\ [](\A u, v \in auth_users : u.sub = v.sub => u = v)
    /\ [][/\ auth_users \subseteq auth_users'
          /\ \A u \in auth_users' \ auth_users :
                 \E r \in reqs \ reqs' :
                     /\ r.pc = "create_user"
                     /\ u.sub = r.new_sub
                     /\ u.email = r.email]_vars

\* A registration of an email that is not on file, with a sub that uuid4
\* had returned before and that is on file: its commit was refused.
C14_Witness ==
    \E r \in Registers :
        /\ r.raised = Some("IntegrityError")
        /\ Accounts(r.email) = {}
        /\ \E u \in auth_users : u.sub = r.new_sub

\* The calls of the store by r that failed for another reason than a
\* uniqueness violation.
Unavailable(r) ==
    {i \in 1..Len(r.store_calls) : r.store_calls[i].raised = Some("OperationalError")}

\* C15: a request one of whose store calls failed for another reason than
\* a uniqueness violation has ended with a 5xx response that carries no
\* token, not with a 400; the call that failed is the last store call it
\* made, and it made no store call twice.
C15_StoreFailureIs5xx ==
    \A r \in reqs :
        Unavailable(r) # {} =>
            /\ Done(r)
            /\ r.resp[1].status_code \in 500..599
            /\ r.resp[1].access_token = None
            /\ Unavailable(r) = {Len(r.store_calls)}
            /\ \A i, j \in 1..Len(r.store_calls) :
                   r.store_calls[i].call = r.store_calls[j].call => i = j

\* A login whose lookup failed, a registration whose commit failed and one
\* whose refresh failed, each answered 500.
C15_Witness ==
    /\ \E r \in Logins : Unavailable(r) = {1} /\ r.resp[1].status_code = 500
    /\ \E r \in Registers : Unavailable(r) = {2} /\ r.resp[1].status_code = 500
    /\ \E r \in Registers : Unavailable(r) = {3} /\ r.resp[1].status_code = 500

\* C16: the session of a request whose handler has returned or raised is
\* closed, and whenever a session is open there comes a state in which
\* every session is closed.
C16_SessionsEventuallyClosed ==
    /\ [](\A r \in reqs : Done(r) => r.session = "closed")
    /\ (\E r \in reqs : r.session = "open") ~> (\A r \in reqs : r.session = "closed")

\* Requests that left their handler by each way out, a token, an
\* HTTPException and an exception nothing catches, their sessions closed.
C16_Witness ==
    /\ \E r \in reqs : Succeeded(r) /\ r.session = "closed"
    /\ \E r \in reqs : r.raised = Some("HTTPException") /\ r.session = "closed"
    /\ \E r \in reqs :
           /\ r.raised \in {Some("OperationalError"), Some("IntegrityError"),
                            Some("ValueError")}
           /\ r.session = "closed"

\* C17: every step leaves the rows of auth_users as they are and adds at
\* most one; a step that adds a row is the end of a registration answered
\* 200 with a token; the step of a login, and the step of a registration
\* answered 400 "That email is already registered", add none; and the end
\* of a registration answered 200 adds exactly one.
C17_AccountsOnlyBySuccessfulRegistration ==
    [][/\ auth_users \subseteq auth_users'
       /\ Cardinality(auth_users' \ auth_users) <= 1
       /\ auth_users' # auth_users =>
              \E q \in reqs' \ reqs : q.op = "register" /\ Succeeded(q)
       /\ \A q \in reqs' \ reqs :
              /\ q.op = "login" => auth_users' = auth_users
              /\ FailedWith(q, 400, "That email is already registered") =>
                     auth_users' = auth_users
              /\ (q.op = "register" /\ Succeeded(q)) =>
                     Cardinality(auth_users' \ auth_users) = 1]_vars

\* The create_user call of the registration r raised.
CreateUserFailed(r) ==
    \E i \in 1..Len(r.store_calls) :
        /\ r.store_calls[i].call \in {"commit", "refresh"}
        /\ r.store_calls[i].raised # None

\* C18: from the state in which it is returned on, the token of every
\* response carries the sub and the email of one row of auth_users, the row
\* the handler held; and a registration whose create_user raised is
\* answered without a token.
C18_TokenOnlyForPersistedAccount ==
    \A r \in reqs :
        /\ Succeeded(r) =>
               /\ r.auth_user # None
               /\ r.auth_user[1] \in auth_users
               /\ TokenOf(r).sub = r.auth_user[1].sub
               /\ TokenOf(r).email = r.auth_user[1].email
               /\ Cardinality({u \in auth_users : /\ u.sub = TokenOf(r).sub
                                                  /\ u.email = TokenOf(r).email}) = 1
        /\ (Done(r) /\ CreateUserFailed(r)) => r.resp[1].access_token = None

\* A registration and a login answered with tokens, and a registration
\* whose create_user raised.
C18_Witness ==
    /\ \E r \in Registers : Succeeded(r)
    /\ \E r \in Logins : Succeeded(r)
    /\ \E r \in Registers : Done(r) /\ CreateUserFailed(r)

====
